---- MODULE Spec2Model ----
(***************************************************************************)
(* Model of the Argo tunnel client binding (argo_tunnel.go): five          *)
(* operations that build a URI, call the shared request helper once,       *)
(* unmarshal the JSON envelope and return the typed result or a wrapped    *)
(* error.                                                                  *)
(***************************************************************************)
EXTENDS Integers, Sequences, FiniteSets, TLC

(***************************************************************************)
(* Bounds of the model.                                                    *)
(***************************************************************************)
\* longest "result" array of a multi-result envelope
MaxTunnels == 2
\* longest "connections" array of a tunnel object
MaxConns == 2
\* number of calls in flight at once on one client (SpecConc)
NumCalls == 2

(***************************************************************************)
(* JSON values, as the decoder sees them after the syntax check.           *)
(* An object is the sequence of its key/value pairs in document order.     *)
(***************************************************************************)
JNull == [t |-> "null", v |-> <<>>]
JStr(s) == [t |-> "str", v |-> s]
JNum(n) == [t |-> "num", v |-> n]
JBool(b) == [t |-> "bool", v |-> b]
JArr(elems) == [t |-> "arr", v |-> elems]
JObj(pairs) == [t |-> "obj", v |-> pairs]
Pair(key, val) == [k |-> key, v |-> val]

\* all sequences over S of length at most n
SeqsUpTo(S, n) == UNION {[1..m -> S] : m \in 0..n}

HasKey(obj, key) == \E i \in 1..Len(obj.v) : obj.v[i].k = key
\* the value of the last pair with this key (a later duplicate overrides)
Lookup(obj, key) ==
    LET idx == {i \in 1..Len(obj.v) : obj.v[i].k = key}
        last == CHOOSE i \in idx : \A j \in idx : j <= i
    IN obj.v[last].v

(***************************************************************************)
(* Errors.  A raw error is a string; NilErr is Go's nil error.             *)
(***************************************************************************)
NilErr == "<nil>"
errMakeRequestError == "request failed"
errUnmarshalError == "decode failed"
NoError == [msg |-> "", cause |-> NilErr]
\* the message alone, the cause dropped
WrapLosingCause(err, msg) == IF err = NilErr THEN NoError ELSE [msg |-> msg, cause |-> msg]
\* errors.Wrap(err, msg): nil for a nil err, else msg with err as its cause
Wrap(err, msg) == IF err = NilErr THEN NoError ELSE [msg |-> msg, cause |-> err]

ErrSyntax == "json: SyntaxError"
ErrType == "json: UnmarshalTypeError"
ErrTime == "Time.UnmarshalJSON: parse error"

(***************************************************************************)
(* Go values.                                                              *)
(***************************************************************************)
ZeroInstant == [unix |-> 0, offset |-> 0]
NilTime == [isNil |-> TRUE, t |-> ZeroInstant]
PtrTime(x) == [isNil |-> FALSE, t |-> x]
NilSlice == [isNil |-> TRUE, elems |-> <<>>]
Slice(s) == [isNil |-> FALSE, elems |-> s]

ZeroArgoTunnel ==
    [ID |-> "", Name |-> "", Secret |-> "",
     CreatedAt |-> NilTime, DeletedAt |-> NilTime, Connections |-> NilSlice]
ZeroArgoTunnelConnection == [ColoName |-> "", UUID |-> "", IsPendingReconnect |-> FALSE]
ZeroResponse == [Success |-> FALSE, Errors |-> NilSlice]
ZeroArgoTunnelsDetailResponse == [Result |-> NilSlice, Response |-> ZeroResponse]
ZeroArgoTunnelDetailResponse == [Result |-> ZeroArgoTunnel, Response |-> ZeroResponse]

\* RFC 3339 texts the model knows, with the instant and zone offset each denotes
TimeTexts == {"2021-01-30T10:00:00Z", "2021-01-30T12:30:00+01:00"}
ParseTime(s) ==
    CASE s = "2021-01-30T10:00:00Z" -> [unix |-> 1612000800, offset |-> 0]
      [] s = "2021-01-30T12:30:00+01:00" -> [unix |-> 1612006200, offset |-> 3600]

(***************************************************************************)
(* json.Unmarshal.  A decoding step yields the new value, the error it     *)
(* saves while going on (a type mismatch) and the error that aborts the    *)
(* whole decoding (an Unmarshaler's own error).                            *)
(***************************************************************************)
Step(val, saved, abort) == [val |-> val, saved |-> saved, abort |-> abort]
FirstErr(a, b) == IF a # NilErr THEN a ELSE b

DecodeString(cur, j) ==
    CASE j.t = "null" -> Step(cur, NilErr, NilErr)
      [] j.t = "str" -> Step(j.v, NilErr, NilErr)
      [] OTHER -> Step(cur, ErrType, NilErr)

DecodeBool(cur, j) ==
    CASE j.t = "null" -> Step(cur, NilErr, NilErr)
      [] j.t = "bool" -> Step(j.v, NilErr, NilErr)
      [] OTHER -> Step(cur, ErrType, NilErr)

\* *time.Time: null clears the pointer; anything else goes to Time.UnmarshalJSON
DecodeTimePtr(cur, j) ==
    CASE j.t = "null" -> Step(NilTime, NilErr, NilErr)
      [] j.t = "str" /\ j.v \in TimeTexts -> Step(PtrTime(ParseTime(j.v)), NilErr, NilErr)
      [] OTHER -> Step(PtrTime(IF cur.isNil THEN ZeroInstant ELSE cur.t), NilErr, ErrTime)

\* the outcome r of decoding one member, stored by put into the value so far
Merge(acc, val, r) == Step(val, FirstErr(acc.saved, r.saved), r.abort)

SetColoName(acc, r) == Merge(acc, [acc.val EXCEPT !.ColoName = r.val], r)
SetUUID(acc, r) == Merge(acc, [acc.val EXCEPT !.UUID = r.val], r)
SetIsPendingReconnect(acc, r) == Merge(acc, [acc.val EXCEPT !.IsPendingReconnect = r.val], r)

\* the json tags of ArgoTunnelConnection; a key no tag names is skipped
ApplyConnectionField(acc, key, j) ==
    CASE key = "colo_name" -> SetColoName(acc, DecodeString(acc.val.ColoName, j))
      [] key = "uuid" -> SetUUID(acc, DecodeString(acc.val.UUID, j))
      [] key = "is_pending_reconnect" ->
            SetIsPendingReconnect(acc, DecodeBool(acc.val.IsPendingReconnect, j))
      [] OTHER -> acc

RECURSIVE ConnectionFields(_, _, _)
ConnectionFields(pairs, i, acc) ==
    IF i > Len(pairs) \/ acc.abort # NilErr THEN acc
    ELSE ConnectionFields(pairs, i + 1, ApplyConnectionField(acc, pairs[i].k, pairs[i].v))

DecodeConnection(cur, j) ==
    CASE j.t = "null" -> Step(cur, NilErr, NilErr)
      [] j.t = "obj" -> ConnectionFields(j.v, 1, Step(cur, NilErr, NilErr))
      [] OTHER -> Step(cur, ErrType, NilErr)

AppendElem(acc, r) == Merge(acc, Append(acc.val, r.val), r)
AsSlice(r) == Step(Slice(r.val), r.saved, r.abort)

RECURSIVE ConnectionElems(_, _, _)
ConnectionElems(elems, i, acc) ==
    IF i > Len(elems) \/ acc.abort # NilErr THEN acc
    ELSE ConnectionElems(elems, i + 1,
             AppendElem(acc, DecodeConnection(ZeroArgoTunnelConnection, elems[i])))

\* []ArgoTunnelConnection: null gives a nil slice, an array a slice of its elements
DecodeConnections(cur, j) ==
    CASE j.t = "null" -> Step(NilSlice, NilErr, NilErr)
      [] j.t = "arr" -> AsSlice(ConnectionElems(j.v, 1, Step(<<>>, NilErr, NilErr)))
      [] OTHER -> Step(cur, ErrType, NilErr)

SetID(acc, r) == Merge(acc, [acc.val EXCEPT !.ID = r.val], r)
SetName(acc, r) == Merge(acc, [acc.val EXCEPT !.Name = r.val], r)
SetSecret(acc, r) == Merge(acc, [acc.val EXCEPT !.Secret = r.val], r)
SetCreatedAt(acc, r) == Merge(acc, [acc.val EXCEPT !.CreatedAt = r.val], r)
SetDeletedAt(acc, r) == Merge(acc, [acc.val EXCEPT !.DeletedAt = r.val], r)
SetConnections(acc, r) == Merge(acc, [acc.val EXCEPT !.Connections = r.val], r)

\* the secret read from a key "secret"
ApplyTunnelFieldWrongTag(acc, key, j) ==
    CASE key = "id" -> SetID(acc, DecodeString(acc.val.ID, j))
      [] key = "name" -> SetName(acc, DecodeString(acc.val.Name, j))
      [] key = "secret" -> SetSecret(acc, DecodeString(acc.val.Secret, j))
      [] key = "created_at" -> SetCreatedAt(acc, DecodeTimePtr(acc.val.CreatedAt, j))
      [] key = "deleted_at" -> SetDeletedAt(acc, DecodeTimePtr(acc.val.DeletedAt, j))
      [] OTHER -> acc

\* the json tags of ArgoTunnel; a key no tag names is skipped
ApplyTunnelField(acc, key, j) ==
    CASE key = "id" -> SetID(acc, DecodeString(acc.val.ID, j))
      [] key = "name" -> SetName(acc, DecodeString(acc.val.Name, j))
      [] key = "tunnel_secret" -> SetSecret(acc, DecodeString(acc.val.Secret, j))
      [] key = "created_at" -> SetCreatedAt(acc, DecodeTimePtr(acc.val.CreatedAt, j))
      [] key = "deleted_at" -> SetDeletedAt(acc, DecodeTimePtr(acc.val.DeletedAt, j))
      [] key = "connections" ->
            SetConnections(acc, DecodeConnections(acc.val.Connections, j))
      [] OTHER -> acc

RECURSIVE TunnelFields(_, _, _)
TunnelFields(pairs, i, acc) ==
    IF i > Len(pairs) \/ acc.abort # NilErr THEN acc
    ELSE TunnelFields(pairs, i + 1, ApplyTunnelField(acc, pairs[i].k, pairs[i].v))

DecodeTunnel(cur, j) ==
    CASE j.t = "null" -> Step(cur, NilErr, NilErr)
      [] j.t = "obj" -> TunnelFields(j.v, 1, Step(cur, NilErr, NilErr))
      [] OTHER -> Step(cur, ErrType, NilErr)

RECURSIVE TunnelElems(_, _, _)
TunnelElems(elems, i, acc) ==
    IF i > Len(elems) \/ acc.abort # NilErr THEN acc
    ELSE TunnelElems(elems, i + 1, AppendElem(acc, DecodeTunnel(ZeroArgoTunnel, elems[i])))

\* []ArgoTunnel
DecodeTunnels(cur, j) ==
    CASE j.t = "null" -> Step(NilSlice, NilErr, NilErr)
      [] j.t = "arr" -> AsSlice(TunnelElems(j.v, 1, Step(<<>>, NilErr, NilErr)))
      [] OTHER -> Step(cur, ErrType, NilErr)

\* the embedded generic Response: a success flag and an error list
DecodeErrors(cur, j) ==
    CASE j.t = "null" -> Step(NilSlice, NilErr, NilErr)
      [] j.t = "arr" -> Step(Slice(j.v), NilErr, NilErr)
      [] OTHER -> Step(cur, ErrType, NilErr)

SetResult(acc, r) == Merge(acc, [acc.val EXCEPT !.Result = r.val], r)
SetSuccess(acc, r) == Merge(acc, [acc.val EXCEPT !.Response.Success = r.val], r)
SetErrors(acc, r) == Merge(acc, [acc.val EXCEPT !.Response.Errors = r.val], r)

\* Result []ArgoTunnel `json:"result"` beside the embedded Response
ApplyTunnelsEnvelopeField(acc, key, j) ==
    CASE key = "result" -> SetResult(acc, DecodeTunnels(acc.val.Result, j))
      [] key = "success" -> SetSuccess(acc, DecodeBool(acc.val.Response.Success, j))
      [] key = "errors" -> SetErrors(acc, DecodeErrors(acc.val.Response.Errors, j))
      [] OTHER -> acc

\* Result ArgoTunnel `json:"result"` beside the embedded Response
ApplyTunnelEnvelopeField(acc, key, j) ==
    CASE key = "result" -> SetResult(acc, DecodeTunnel(acc.val.Result, j))
      [] key = "success" -> SetSuccess(acc, DecodeBool(acc.val.Response.Success, j))
      [] key = "errors" -> SetErrors(acc, DecodeErrors(acc.val.Response.Errors, j))
      [] OTHER -> acc

RECURSIVE EnvelopeFields(_, _, _, _)
EnvelopeFields(kind, pairs, i, acc) ==
    IF i > Len(pairs) \/ acc.abort # NilErr THEN acc
    ELSE EnvelopeFields(kind, pairs, i + 1,
             IF kind = "multi"
             THEN ApplyTunnelsEnvelopeField(acc, pairs[i].k, pairs[i].v)
             ELSE ApplyTunnelEnvelopeField(acc, pairs[i].k, pairs[i].v))

DecodeEnvelope(kind, cur, j) ==
    CASE j.t = "null" -> Step(cur, NilErr, NilErr)
      [] j.t = "obj" -> EnvelopeFields(kind, j.v, 1, Step(cur, NilErr, NilErr))
      [] OTHER -> Step(cur, ErrType, NilErr)

\* what json.Unmarshal hands back: the value as filled, and the aborting
\* error or else the first saved one
Outcome(r) == [val |-> r.val, err |-> FirstErr(r.abort, r.saved)]

\* json.Unmarshal(res, &v): the syntax check of the whole input comes first and
\* leaves v untouched; then v is filled in document order, and what was filled
\* stays filled when an error is returned.
Unmarshal(kind, res, v) ==
    IF ~res.valid THEN [val |-> v, err |-> ErrSyntax]
    ELSE Outcome(DecodeEnvelope(kind, v, res.json))

(***************************************************************************)
(* Request side.                                                           *)
(***************************************************************************)
\* url.PathEscape on the identifiers of the model
PathEscape(x) ==
    CASE x = "a/b c" -> "a%2Fb%20c"
      [] x = "../x?y=%2F" -> "..%2Fx%3Fy=%252F"
      [] OTHER -> x
\* every argument escaped on its way into the path
RECURSIVE SprintfEscaped(_, _)
SprintfEscaped(format, a) ==
    IF format = <<>> THEN ""
    ELSE IF Head(format) = "%s"
         THEN PathEscape(Head(a)) \o SprintfEscaped(Tail(format), Tail(a))
         ELSE Head(format) \o SprintfEscaped(Tail(format), a)

\* fmt.Sprintf over a format cut at its verbs: every "%s" takes the next
\* argument as it is, every other piece is copied.
RECURSIVE Sprintf(_, _)
Sprintf(format, a) ==
    IF format = <<>> THEN ""
    ELSE IF Head(format) = "%s"
         THEN Head(a) \o Sprintf(Tail(format), Tail(a))
         ELSE Head(format) \o Sprintf(Tail(format), a)

NoParams == [none |-> TRUE]
NoBody == [none |-> TRUE]

\* json.Marshal of an ArgoTunnel: every field is omitempty
MarshalArgoTunnel(tun) ==
    JObj(  (IF tun.ID = "" THEN <<>> ELSE <<Pair("id", JStr(tun.ID))>>)
        \o (IF tun.Name = "" THEN <<>> ELSE <<Pair("name", JStr(tun.Name))>>)
        \o (IF tun.Secret = "" THEN <<>> ELSE <<Pair("tunnel_secret", JStr(tun.Secret))>>)
        \o (IF tun.CreatedAt.isNil THEN <<>> ELSE <<Pair("created_at", [t |-> "time", v |-> tun.CreatedAt.t])>>)
        \o (IF tun.DeletedAt.isNil THEN <<>> ELSE <<Pair("deleted_at", [t |-> "time", v |-> tun.DeletedAt.t])>>)
        \o (IF tun.Connections.elems = <<>> THEN <<>>
            ELSE <<Pair("connections", JArr(tun.Connections.elems))>>))

\* tunnel := ArgoTunnel{Name: name, Secret: secret}
CreateParamsSwapped(name, secret) == [ZeroArgoTunnel EXCEPT !.Name = secret, !.Secret = name]
CreateParams(name, secret) == [ZeroArgoTunnel EXCEPT !.Name = name, !.Secret = secret]

(***************************************************************************)
(* State.  Every variable but frames is a function of the call.            *)
(***************************************************************************)
VARIABLES
    pc,        \* where the call stands: idle, awaiting, returned, decoded, done
    op,        \* the operation the call runs
    args,      \* its arguments
    reqs,      \* the requests it handed to the request helper, oldest first
    res,       \* the helper's bytes
    err,       \* the helper's error
    frames,    \* the argoDetailsResponse local of each invocation
    decErr,    \* json.Unmarshal's error
    decoded,   \* the inputs handed to json.Unmarshal, oldest first
    ret,       \* the returned value
    retErr     \* the returned error

vars == <<pc, op, args, reqs, res, err, frames, decErr, decoded, ret, retErr>>

Calls == DOMAIN pc

NoArgs == [none |-> TRUE]
NoValue == [none |-> TRUE]
NoBytes == [valid |-> FALSE, json |-> JNull]
\* []ArgoTunnel{}
NilTunnels == NilSlice
EmptyTunnels == Slice(<<>>)

\* the stack frame holding the argoDetailsResponse of call c: its own
SharedFrame(c) == 1
Frame(c) == c

InitCalls(n) ==
    /\ pc = [c \in 1..n |-> "idle"]
    /\ op = [c \in 1..n |-> ""]
    /\ args = [c \in 1..n |-> NoArgs]
    /\ reqs = [c \in 1..n |-> <<>>]
    /\ res = [c \in 1..n |-> NoBytes]
    /\ err = [c \in 1..n |-> NilErr]
    /\ frames = [c \in 1..n |-> ZeroArgoTunnelDetailResponse]
    /\ decErr = [c \in 1..n |-> NilErr]
    /\ decoded = [c \in 1..n |-> <<>>]
    /\ ret = [c \in 1..n |-> NoValue]
    /\ retErr = [c \in 1..n |-> NoError]

(***************************************************************************)
(* The steps the five operations are made of.                              *)
(***************************************************************************)
\* entry of an operation up to its call of api.makeRequestContext, which
\* serializes params (when given) as the body and blocks until the reply
makeRequestContext(c, name, a, ctx, method, uri, params) ==
    /\ pc[c] = "idle"
    /\ pc' = [pc EXCEPT ![c] = "awaiting"]
    /\ op' = [op EXCEPT ![c] = name]
    /\ args' = [args EXCEPT ![c] = a]
    /\ reqs' = [reqs EXCEPT ![c] = Append(@,
                   [ctx |-> ctx, method |-> method, uri |-> uri,
                    body |-> IF params = NoParams THEN NoBody
                             ELSE MarshalArgoTunnel(params)])]
    /\ UNCHANGED <<res, err, frames, decErr, decoded, ret, retErr>>

\* the helper returns: bytes and a nil error, or no bytes and an error
makeRequestContextReturns(c, outcomes) ==
    /\ pc[c] = "awaiting"
    /\ \E o \in outcomes :
          /\ res' = [res EXCEPT ![c] = o.res]
          /\ err' = [err EXCEPT ![c] = o.err]
    /\ pc' = [pc EXCEPT ![c] = "returned"]
    /\ UNCHANGED <<op, args, reqs, frames, decErr, decoded, ret, retErr>>

Return(c, value, e) ==
    /\ pc' = [pc EXCEPT ![c] = "done"]
    /\ ret' = [ret EXCEPT ![c] = value]
    /\ retErr' = [retErr EXCEPT ![c] = e]
    /\ UNCHANGED <<op, args, reqs, res, err, frames, decErr, decoded>>

\* a second attempt after a failed request
RequestFailedRetry(c, zero) ==
    /\ pc[c] = "returned"
    /\ err[c] # NilErr
    /\ IF Len(reqs[c]) < 2
       THEN /\ pc' = [pc EXCEPT ![c] = "awaiting"]
            /\ reqs' = [reqs EXCEPT ![c] = Append(@, @[1])]
            /\ UNCHANGED <<op, args, res, err, frames, decErr, decoded, ret, retErr>>
       ELSE Return(c, zero, Wrap(err[c], errMakeRequestError))

\* if err != nil { return zero, errors.Wrap(err, errMakeRequestError) }
RequestFailed(c, zero) ==
    /\ pc[c] = "returned"
    /\ err[c] # NilErr
    /\ Return(c, zero, Wrap(err[c], errMakeRequestError))

\* argoDetailsResponse and err after json.Unmarshal
Store(c, r) ==
    /\ frames' = [frames EXCEPT ![Frame(c)] = r.val]
    /\ decErr' = [decErr EXCEPT ![c] = r.err]

\* var argoDetailsResponse T; err = json.Unmarshal(res, &argoDetailsResponse)
UnmarshalResponse(c, kind, zero) ==
    /\ pc[c] = "returned"
    /\ err[c] = NilErr
    /\ Store(c, Unmarshal(kind, res[c], zero))
    /\ decoded' = [decoded EXCEPT ![c] = Append(@, res[c])]
    /\ pc' = [pc EXCEPT ![c] = "decoded"]
    /\ UNCHANGED <<op, args, reqs, res, err, ret, retErr>>

\* returning what the decoder had filled in before it failed
DecodeFailedPartial(c, zero) ==
    /\ pc[c] = "decoded"
    /\ decErr[c] # NilErr
    /\ Return(c, IF zero = NoValue THEN zero ELSE frames[Frame(c)].Result,
              Wrap(decErr[c], errUnmarshalError))

\* if err != nil { return zero, errors.Wrap(err, errUnmarshalError) }
DecodeFailed(c, zero) ==
    /\ pc[c] = "decoded"
    /\ decErr[c] # NilErr
    /\ Return(c, zero, Wrap(decErr[c], errUnmarshalError))

\* the first element only
ResultOfFirst(resp) ==
    IF "elems" \notin DOMAIN resp.Result THEN resp.Result
    ELSE IF Len(resp.Result.elems) <= 1 THEN resp.Result
    ELSE Slice(<<resp.Result.elems[1]>>)
\* argoDetailsResponse.Result
ResultOf(resp) == resp.Result

\* return argoDetailsResponse.Result, nil
ReturnResult(c) ==
    /\ pc[c] = "decoded"
    /\ decErr[c] = NilErr
    /\ Return(c, ResultOf(frames[Frame(c)]), NoError)

\* surfacing the envelope's own failure report
ReturnEnvelopeError(c) ==
    /\ pc[c] = "decoded"
    /\ decErr[c] = NilErr
    /\ Return(c, NoValue,
              IF frames[Frame(c)].Response.Success THEN NoError
              ELSE [msg |-> "api error", cause |-> "success: false"])

\* return nil
ReturnNil(c) ==
    /\ pc[c] = "decoded"
    /\ decErr[c] = NilErr
    /\ Return(c, NoValue, NoError)

(***************************************************************************)
(* The five operations.  U holds the sets the arguments are drawn from.    *)
(***************************************************************************)
ArgoTunnels(c, U) ==
    \/ \E ctx \in U.ctxs, accountID \in U.accountIDs :
          /\ pc[c] = "idle"
          /\ makeRequestContext(c, "ArgoTunnels",
              [ctx |-> ctx, accountID |-> accountID],
              ctx, "GET", "/accounts/" \o accountID \o "/tunnels", NoParams)
    \/ /\ op[c] = "ArgoTunnels" /\ RequestFailed(c, EmptyTunnels)
    \/ /\ op[c] = "ArgoTunnels" /\ UnmarshalResponse(c, "multi", ZeroArgoTunnelsDetailResponse)
    \/ /\ op[c] = "ArgoTunnels" /\ DecodeFailed(c, EmptyTunnels)
    \/ /\ op[c] = "ArgoTunnels" /\ ReturnResult(c)

ArgoTunnel(c, U) ==
    \/ \E ctx \in U.ctxs, accountID \in U.accountIDs, tunnelUUID \in U.tunnelIDs :
          /\ pc[c] = "idle"
          /\ makeRequestContext(c, "ArgoTunnel",
              [ctx |-> ctx, accountID |-> accountID, tunnelUUID |-> tunnelUUID],
              ctx, "GET",
              Sprintf(<<"/accounts/", "%s", "/tunnels/", "%s">>, <<accountID, tunnelUUID>>),
              NoParams)
    \/ /\ op[c] = "ArgoTunnel" /\ RequestFailed(c, ZeroArgoTunnel)
    \/ /\ op[c] = "ArgoTunnel" /\ UnmarshalResponse(c, "single", ZeroArgoTunnelDetailResponse)
    \/ /\ op[c] = "ArgoTunnel" /\ DecodeFailed(c, ZeroArgoTunnel)
    \/ /\ op[c] = "ArgoTunnel" /\ ReturnResult(c)

CreateArgoTunnel(c, U) ==
    \/ \E ctx \in U.ctxs, accountID \in U.accountIDs,
          name \in U.names, secret \in U.secrets :
          /\ pc[c] = "idle"
          /\ makeRequestContext(c, "CreateArgoTunnel",
              [ctx |-> ctx, accountID |-> accountID, name |-> name, secret |-> secret],
              ctx, "POST", "/accounts/" \o accountID \o "/tunnels",
              CreateParams(name, secret))
    \/ /\ op[c] = "CreateArgoTunnel" /\ RequestFailed(c, ZeroArgoTunnel)
    \/ /\ op[c] = "CreateArgoTunnel" /\ UnmarshalResponse(c, "single", ZeroArgoTunnelDetailResponse)
    \/ /\ op[c] = "CreateArgoTunnel" /\ DecodeFailed(c, ZeroArgoTunnel)
    \/ /\ op[c] = "CreateArgoTunnel" /\ ReturnResult(c)

DeleteArgoTunnel(c, U) ==
    \/ \E ctx \in U.ctxs, accountID \in U.accountIDs, tunnelUUID \in U.tunnelIDs :
          /\ pc[c] = "idle"
          /\ makeRequestContext(c, "DeleteArgoTunnel",
              [ctx |-> ctx, accountID |-> accountID, tunnelUUID |-> tunnelUUID],
              ctx, "DELETE",
              Sprintf(<<"/accounts/", "%s", "/tunnels/", "%s">>, <<accountID, tunnelUUID>>),
              NoParams)
    \/ /\ op[c] = "DeleteArgoTunnel" /\ RequestFailed(c, NoValue)
    \/ /\ op[c] = "DeleteArgoTunnel" /\ UnmarshalResponse(c, "single", ZeroArgoTunnelDetailResponse)
    \/ /\ op[c] = "DeleteArgoTunnel" /\ DecodeFailed(c, NoValue)
    \/ /\ op[c] = "DeleteArgoTunnel" /\ ReturnNil(c)

CleanupArgoTunnelConnections(c, U) ==
    \/ \E ctx \in U.ctxs, accountID \in U.accountIDs, tunnelUUID \in U.tunnelIDs :
          /\ pc[c] = "idle"
          /\ makeRequestContext(c, "CleanupArgoTunnelConnections",
              [ctx |-> ctx, accountID |-> accountID, tunnelUUID |-> tunnelUUID],
              ctx, "DELETE",
              Sprintf(<<"/accounts/", "%s", "/tunnels/", "%s", "/connections">>,
                      <<accountID, tunnelUUID>>),
              NoParams)
    \/ /\ op[c] = "CleanupArgoTunnelConnections" /\ RequestFailed(c, NoValue)
    \/ /\ op[c] = "CleanupArgoTunnelConnections"
       /\ UnmarshalResponse(c, "single", ZeroArgoTunnelDetailResponse)
    \/ /\ op[c] = "CleanupArgoTunnelConnections" /\ DecodeFailed(c, NoValue)
    \/ /\ op[c] = "CleanupArgoTunnelConnections" /\ ReturnNil(c)

(***************************************************************************)
(* What the server may answer.                                             *)
(***************************************************************************)
Bytes(j) == [valid |-> TRUE, json |-> j]
\* bytes that are no JSON document
Malformed == [valid |-> FALSE, json |-> JStr("{\"result\":")]

ConnFull ==
    JObj(<<Pair("colo_name", JStr("LHR")), Pair("uuid", JStr("c1")),
           Pair("is_pending_reconnect", JBool(TRUE))>>)
ConnSamples ==
    {ConnFull,
     JObj(<<Pair("colo_name", JStr("SFO"))>>),
     JObj(<<Pair("uuid", JNum("5")), Pair("colo_name", JStr("AMS"))>>)}
ConnectionsSamples ==
    {JArr(s) : s \in SeqsUpTo(ConnSamples, MaxConns)} \cup {JNull, JStr("none")}

IdOpts == {<<>>, <<Pair("id", JStr("t1"))>>, <<Pair("id", JNum("7"))>>}
NameOpts == {<<>>, <<Pair("name", JStr("mytunnel"))>>}
SecretOpts == {<<>>, <<Pair("tunnel_secret", JStr("s3cr3t"))>>}
CreatedOpts ==
    {<<>>, <<Pair("created_at", JStr("2021-01-30T10:00:00Z"))>>,
     <<Pair("created_at", JStr("yesterday"))>>}
DeletedOpts ==
    {<<>>, <<Pair("deleted_at", JNull)>>,
     <<Pair("deleted_at", JStr("2021-01-30T12:30:00+01:00"))>>}

\* tunnel objects: the string fields varied, then the timestamps, then the
\* connections, with a key the struct does not know thrown in
TunnelSamples ==
    {JObj(i \o n \o s) : i \in IdOpts, n \in NameOpts, s \in SecretOpts}
    \cup {JObj(<<Pair("id", JStr("t1"))>> \o cr \o de \o <<Pair("name", JStr("mytunnel"))>>) :
            cr \in CreatedOpts, de \in DeletedOpts}
    \cup {JObj(<<Pair("id", JStr("t2")), Pair("kind", JStr("cfd")), Pair("connections", cs)>>) :
            cs \in ConnectionsSamples}

\* the generic status part of an envelope
StatusOpts ==
    {<<>>,
     <<Pair("success", JBool(TRUE)), Pair("errors", JArr(<<>>))>>,
     <<Pair("success", JBool(FALSE)),
       Pair("errors", JArr(<<JObj(<<Pair("code", JNum("1000")),
                                    Pair("message", JStr("tunnel not found"))>>)>>))>>,
     <<Pair("success", JStr("yes"))>>}

SingleResults ==
    {<<>>, <<Pair("result", JNull)>>, <<Pair("result", JArr(<<>>))>>}
    \cup {<<Pair("result", tun)>> : tun \in TunnelSamples}

ListElemSamples ==
    {JObj(<<Pair("id", JStr("t1")), Pair("name", JStr("mytunnel"))>>),
     JObj(<<Pair("id", JStr("t2"))>>),
     JNull,
     JStr("oops")}
MultiResults ==
    {<<>>, <<Pair("result", JNull)>>, <<Pair("result", JObj(<<Pair("id", JStr("t1"))>>))>>}
    \cup {<<Pair("result", JArr(s))>> : s \in SeqsUpTo(ListElemSamples, MaxTunnels)}

Responses ==
    {Malformed, Bytes(JNull), Bytes(JArr(<<>>))}
    \cup {Bytes(JObj(r \o st)) : r \in SingleResults \cup MultiResults, st \in StatusOpts}

TransportErrors == {"HTTP status 403", "context canceled"}

Success(b) == [res |-> b, err |-> NilErr]
Failure(e) == [res |-> NoBytes, err |-> e]

\* one call at a time, everything the server may answer
Universe ==
    [ctxs |-> {"ctx1", "ctx2"},
     accountIDs |-> {"acct1", "a/b c"},
     tunnelIDs |-> {"t1", "../x?y=%2F"},
     names |-> {"", "mytunnel"},
     secrets |-> {"", "s3cr3t"},
     outcomes |-> {Success(b) : b \in Responses} \cup {Failure(e) : e \in TransportErrors}]

\* several calls at once, a few answers that tell the calls apart
SmallUniverse ==
    [ctxs |-> {"ctx1"},
     accountIDs |-> {"acct1"},
     tunnelIDs |-> {"t1"},
     names |-> {"mytunnel"},
     secrets |-> {"s3cr3t"},
     outcomes |->
        {Failure("HTTP status 403"),
         Success(Bytes(JObj(<<Pair("result",
                     JObj(<<Pair("id", JStr("t1")), Pair("name", JStr("mytunnel"))>>)),
                   Pair("success", JBool(TRUE))>>))),
         Success(Bytes(JObj(<<Pair("result",
                     JObj(<<Pair("id", JStr("t2")), Pair("name", JNum("5"))>>))>>))),
         Success(Bytes(JObj(<<Pair("result", JArr(<<JObj(<<Pair("id", JStr("t3"))>>)>>))>>)))}]

Operation(c, U) ==
    \/ ArgoTunnels(c, U)
    \/ ArgoTunnel(c, U)
    \/ CreateArgoTunnel(c, U)
    \/ DeleteArgoTunnel(c, U)
    \/ CleanupArgoTunnelConnections(c, U)
    \/ makeRequestContextReturns(c, U.outcomes)

Init == InitCalls(1)
Next == \E c \in 1..1 : Operation(c, Universe)
Spec == Init /\ [][Next]_vars

InitConc == InitCalls(NumCalls)
NextConc == \E c \in 1..NumCalls : Operation(c, SmallUniverse)
SpecConc == InitConc /\ [][NextConc]_vars

(***************************************************************************)
(* Vocabulary of the properties.                                           *)
(***************************************************************************)
Done(c) == pc[c] = "done"
Started(c) == pc[c] # "idle"
TransportOK(c) == pc[c] \in {"returned", "decoded", "done"} /\ err[c] = NilErr
TransportFailed(c) == pc[c] \in {"returned", "decoded", "done"} /\ err[c] # NilErr

KindOf(o) == IF o = "ArgoTunnels" THEN "multi" ELSE "single"
ReturnsTunnel(o) == o \in {"ArgoTunnel", "CreateArgoTunnel"}
ReturnsNothing(o) == o \in {"DeleteArgoTunnel", "CleanupArgoTunnelConnections"}
\* the zero-value result of each operation, written out
ZeroResultOf(o) ==
    CASE o = "ArgoTunnels" -> [isNil |-> FALSE, elems |-> <<>>]
      [] ReturnsTunnel(o) ->
            [ID |-> "", Name |-> "", Secret |-> "",
             CreatedAt |-> [isNil |-> TRUE, t |-> ZeroInstant],
             DeletedAt |-> [isNil |-> TRUE, t |-> ZeroInstant],
             Connections |-> [isNil |-> TRUE, elems |-> <<>>]]
      [] OTHER -> [none |-> TRUE]

\* The envelope shapes, read off the struct types: a member the types name
\* has the JSON type of its field or is null, any other member is free.
Members(obj, P(_, _)) == \A i \in 1..Len(obj.v) : P(obj.v[i].k, obj.v[i].v)
IsStringOrNull(j) == j.t \in {"str", "null"}
IsBoolOrNull(j) == j.t \in {"bool", "null"}
IsTimeOrNull(j) == j.t = "null" \/ (j.t = "str" /\ j.v \in TimeTexts)
ConnMemberOK(key, j) ==
    /\ key \in {"colo_name", "uuid"} => IsStringOrNull(j)
    /\ key = "is_pending_reconnect" => IsBoolOrNull(j)
IsConnection(j) == j.t = "null" \/ (j.t = "obj" /\ Members(j, ConnMemberOK))
TunnelMemberOK(key, j) ==
    /\ key \in {"id", "name", "tunnel_secret"} => IsStringOrNull(j)
    /\ key \in {"created_at", "deleted_at"} => IsTimeOrNull(j)
    /\ key = "connections" =>
          j.t = "null" \/ (j.t = "arr" /\ \A i \in 1..Len(j.v) : IsConnection(j.v[i]))
IsTunnel(j) == j.t = "null" \/ (j.t = "obj" /\ Members(j, TunnelMemberOK))
StatusMemberOK(key, j) ==
    /\ key = "success" => IsBoolOrNull(j)
    /\ key = "errors" => j.t \in {"arr", "null"}
SingleMemberOK(key, j) ==
    /\ StatusMemberOK(key, j)
    /\ key = "result" => IsTunnel(j)
MultiMemberOK(key, j) ==
    /\ StatusMemberOK(key, j)
    /\ key = "result" =>
          j.t = "null" \/ (j.t = "arr" /\ \A i \in 1..Len(j.v) : IsTunnel(j.v[i]))
MatchesShape(kind, b) ==
    /\ b.valid
    /\ \/ b.json.t = "null"
       \/ /\ b.json.t = "obj"
          /\ IF kind = "multi" THEN Members(b.json, MultiMemberOK)
                               ELSE Members(b.json, SingleMemberOK)

\* The value a JSON document gives a field: the member's value, and the zero
\* value when the member is left out or null.
Present(j, key) == j.t = "obj" /\ HasKey(j, key) /\ Lookup(j, key).t # "null"
StringIn(j, key) == IF Present(j, key) THEN Lookup(j, key).v ELSE ""
BoolIn(j, key) == IF Present(j, key) THEN Lookup(j, key).v ELSE FALSE
TimeIn(j, key) ==
    IF Present(j, key) THEN [isNil |-> FALSE, t |-> ParseTime(Lookup(j, key).v)]
    ELSE [isNil |-> TRUE, t |-> ZeroInstant]
ConnectionIn(j) ==
    [ColoName |-> StringIn(j, "colo_name"), UUID |-> StringIn(j, "uuid"),
     IsPendingReconnect |-> BoolIn(j, "is_pending_reconnect")]
ConnectionsIn(j) ==
    IF Present(j, "connections")
    THEN [isNil |-> FALSE,
          elems |-> [i \in 1..Len(Lookup(j, "connections").v) |->
                        ConnectionIn(Lookup(j, "connections").v[i])]]
    ELSE [isNil |-> TRUE, elems |-> <<>>]
TunnelIn(j) ==
    [ID |-> StringIn(j, "id"), Name |-> StringIn(j, "name"),
     Secret |-> StringIn(j, "tunnel_secret"),
     CreatedAt |-> TimeIn(j, "created_at"), DeletedAt |-> TimeIn(j, "deleted_at"),
     Connections |-> ConnectionsIn(j)]
\* the "result" member of an envelope, null when there is none
ResultIn(b) == IF Present(b.json, "result") THEN Lookup(b.json, "result") ELSE JNull

(***************************************************************************)
(* C1: when the request helper reports a failure, the operation returns    *)
(* its zero-value result (an empty, non-nil slice for the list) with a     *)
(* non-nil error of the request-failed stage, and the response never       *)
(* reaches the JSON decoder.                                               *)
(***************************************************************************)
C1_TransportFailure ==
    \A c \in Calls :
        TransportFailed(c) =>
            /\ decoded[c] = <<>>
            /\ pc[c] # "decoded"
            /\ Done(c) =>
                  /\ ret[c] = ZeroResultOf(op[c])
                  /\ retErr[c] # NoError
                  /\ retErr[c].msg = errMakeRequestError

C1_Witness ==
    \E c \in Calls :
        /\ Done(c) /\ op[c] = "ArgoTunnels" /\ err[c] = "HTTP status 403"
        /\ ret[c] = [isNil |-> FALSE, elems |-> <<>>]
        /\ retErr[c].msg = errMakeRequestError

(***************************************************************************)
(* C2: when the request succeeds but the bytes are no JSON or do not match *)
(* the envelope the operation expects, the operation returns a non-nil     *)
(* error of the decode-failed stage with its zero-value result, whatever   *)
(* the decoder had filled in before it failed.                             *)
(***************************************************************************)
C2_DecodeFailure ==
    \A c \in Calls :
        (Done(c) /\ TransportOK(c) /\ ~MatchesShape(KindOf(op[c]), res[c])) =>
            /\ retErr[c] # NoError
            /\ retErr[c].msg = errUnmarshalError
            /\ ret[c] = ZeroResultOf(op[c])

\* the decoder had filled in the name and allocated a timestamp when it failed
C2_Witness ==
    \E c \in Calls :
        /\ Done(c) /\ op[c] = "ArgoTunnel" /\ TransportOK(c)
        /\ decErr[c] = ErrTime
        /\ frames[c].Result.ID = "t1"
        /\ ~frames[c].Result.CreatedAt.isNil
        /\ ret[c] = ZeroArgoTunnel
        /\ retErr[c].msg = errUnmarshalError

(***************************************************************************)
(* C3: every operation issues its request with the method and path of the  *)
(* interface table, the identifiers put into the path as they are.         *)
(***************************************************************************)
C3_MethodAndPath ==
    \A c \in Calls :
        Started(c) =>
            LET r == reqs[c][1]
                a == args[c]
            IN CASE op[c] = "ArgoTunnels" ->
                      /\ r.method = "GET"
                      /\ r.uri = "/accounts/" \o a.accountID \o "/tunnels"
                 [] op[c] = "ArgoTunnel" ->
                      /\ r.method = "GET"
                      /\ r.uri = "/accounts/" \o a.accountID \o "/tunnels/" \o a.tunnelUUID
                 [] op[c] = "CreateArgoTunnel" ->
                      /\ r.method = "POST"
                      /\ r.uri = "/accounts/" \o a.accountID \o "/tunnels"
                 [] op[c] = "DeleteArgoTunnel" ->
                      /\ r.method = "DELETE"
                      /\ r.uri = "/accounts/" \o a.accountID \o "/tunnels/" \o a.tunnelUUID
                 [] op[c] = "CleanupArgoTunnelConnections" ->
                      /\ r.method = "DELETE"
                      /\ r.uri = "/accounts/" \o a.accountID \o "/tunnels/"
                                   \o a.tunnelUUID \o "/connections"

\* identifiers holding a slash, a blank, a question mark and a percent sign
C3_Witness ==
    \E c \in Calls :
        /\ op[c] = "CleanupArgoTunnelConnections" /\ Started(c)
        /\ args[c].accountID = "a/b c" /\ args[c].tunnelUUID = "../x?y=%2F"
        /\ reqs[c][1].method = "DELETE"
        /\ reqs[c][1].uri = "/accounts/a/b c/tunnels/../x?y=%2F/connections"

(***************************************************************************)
(* C4: DeleteArgoTunnel and CleanupArgoTunnelConnections, after a          *)
(* successful request answered by an envelope of the expected shape,       *)
(* return no error whatever the envelope's success flag and error list.    *)
(***************************************************************************)
C4_EnvelopeFailureNotSurfaced ==
    \A c \in Calls :
        (Done(c) /\ ReturnsNothing(op[c]) /\ TransportOK(c)
            /\ MatchesShape("single", res[c])) =>
            retErr[c] = NoError

\* the envelope says success: false and lists an error; the caller gets nil
C4_Witness ==
    \E c \in Calls :
        /\ Done(c) /\ op[c] = "DeleteArgoTunnel" /\ TransportOK(c)
        /\ Present(res[c].json, "success") /\ Lookup(res[c].json, "success") = JBool(FALSE)
        /\ Present(res[c].json, "errors") /\ Lookup(res[c].json, "errors").t = "arr"
        /\ Len(Lookup(res[c].json, "errors").v) = 1
        /\ ~frames[c].Response.Success
        /\ retErr[c] = NoError

(***************************************************************************)
(* C5: a returned error is either request-failed with the request          *)
(* helper's error as its cause, or decode-failed with the decoder's error  *)
(* as its cause; no error is returned exactly when the request and the     *)
(* decoding both succeeded.                                                *)
(***************************************************************************)
C5_TwoErrorKinds ==
    \A c \in Calls :
        Done(c) =>
            /\ retErr[c] = NoError <=>
                  (err[c] = NilErr /\ Len(decoded[c]) = 1 /\ decErr[c] = NilErr)
            /\ retErr[c] # NoError =>
                  \/ /\ retErr[c].msg = errMakeRequestError
                     /\ err[c] # NilErr
                     /\ retErr[c].cause = err[c]
                  \/ /\ retErr[c].msg = errUnmarshalError
                     /\ err[c] = NilErr /\ decErr[c] # NilErr
                     /\ retErr[c].cause = decErr[c]

C5_Witness ==
    \E c \in Calls :
        /\ Done(c) /\ op[c] = "CreateArgoTunnel"
        /\ retErr[c] = [msg |-> errUnmarshalError, cause |-> ErrType]
        /\ err[c] = NilErr /\ decErr[c] = ErrType

(***************************************************************************)
(* C6: for a response matching the multi-result envelope, ArgoTunnels      *)
(* returns without error as many tunnels as the result array has elements, *)
(* the i-th being the i-th element decoded.                                *)
(***************************************************************************)
C6_ListLengthAndOrder ==
    \A c \in Calls :
        (Done(c) /\ op[c] = "ArgoTunnels" /\ TransportOK(c)
            /\ MatchesShape("multi", res[c])) =>
            /\ retErr[c] = NoError
            /\ LET arr == IF ResultIn(res[c]).t = "arr" THEN ResultIn(res[c]).v ELSE <<>>
               IN /\ Len(ret[c].elems) = Len(arr)
                  /\ \A i \in 1..Len(arr) : ret[c].elems[i] = TunnelIn(arr[i])

\* two different tunnels, in the order of the array
C6_Witness ==
    \E c \in Calls :
        /\ Done(c) /\ op[c] = "ArgoTunnels" /\ retErr[c] = NoError
        /\ Len(ResultIn(res[c]).v) = 2
        /\ Len(ret[c].elems) = 2
        /\ ret[c].elems[1].ID = "t2" /\ ret[c].elems[2].ID = "t1"
        /\ ret[c].elems[2].Name = "mytunnel"

(***************************************************************************)
(* C7: for a response matching the single-result envelope, ArgoTunnel and  *)
(* CreateArgoTunnel return the tunnel whose fields are the values of the   *)
(* result object, a field left out being the zero value: the empty string, *)
(* the nil timestamp, no connections.                                      *)
(***************************************************************************)
C7_FieldFidelity ==
    \A c \in Calls :
        (Done(c) /\ ReturnsTunnel(op[c]) /\ TransportOK(c)
            /\ MatchesShape("single", res[c])) =>
            /\ retErr[c] = NoError
            /\ ret[c] = TunnelIn(ResultIn(res[c]))

\* a secret given and the name, the timestamps and the connections left out
C7_Witness ==
    \E c \in Calls :
        /\ Done(c) /\ op[c] = "CreateArgoTunnel" /\ retErr[c] = NoError
        /\ Present(ResultIn(res[c]), "tunnel_secret")
        /\ ~HasKey(ResultIn(res[c]), "name")
        /\ ret[c].ID = "t1" /\ ret[c].Secret = "s3cr3t" /\ ret[c].Name = ""
        /\ ret[c].CreatedAt.isNil /\ ret[c].Connections.elems = <<>>

(***************************************************************************)
(* C8: CreateArgoTunnel sends as its body a tunnel carrying only the name  *)
(* and the secret given, each left out when empty, and never id,           *)
(* created_at, deleted_at or connections; the other operations send no     *)
(* body.                                                                   *)
(***************************************************************************)
C8_CreateBody ==
    \A c \in Calls :
        Started(c) =>
            LET body == reqs[c][1].body
                a == args[c]
            IN IF op[c] = "CreateArgoTunnel"
               THEN /\ body # NoBody
                    /\ body.t = "obj"
                    /\ \A i \in 1..Len(body.v) : body.v[i].k \in {"name", "tunnel_secret"}
                    /\ \A i, j \in 1..Len(body.v) : body.v[i].k = body.v[j].k => i = j
                    /\ HasKey(body, "name") <=> a.name # ""
                    /\ HasKey(body, "tunnel_secret") <=> a.secret # ""
                    /\ a.name # "" => Lookup(body, "name") = JStr(a.name)
                    /\ a.secret # "" => Lookup(body, "tunnel_secret") = JStr(a.secret)
               ELSE body = NoBody

C8_Witness ==
    \E c \in Calls :
        /\ op[c] = "CreateArgoTunnel" /\ Started(c)
        /\ args[c].name = "mytunnel" /\ args[c].secret = "s3cr3t"
        /\ reqs[c][1].body = JObj(<<Pair("name", JStr("mytunnel")),
                                    Pair("tunnel_secret", JStr("s3cr3t"))>>)

(***************************************************************************)
(* C9: an invocation hands exactly one request to the request helper,      *)
(* carrying the caller's context, and hands the reply to the decoder at    *)
(* most once; after its return the call takes no further step: nothing is *)
(* retried after a failure and nothing follows the first reply.            *)
(***************************************************************************)
C9_SingleRoundTrip ==
    \A c \in Calls :
        /\ ~Started(c) => reqs[c] = <<>>
        /\ Started(c) => Len(reqs[c]) = 1 /\ reqs[c][1].ctx = args[c].ctx
        /\ Len(decoded[c]) <= 1
        /\ Done(c) => ~ENABLED Operation(c, Universe)

\* a failed request, returned from after that one request
C9_Witness ==
    \E c \in Calls :
        /\ Done(c) /\ retErr[c].msg = errMakeRequestError
        /\ Len(reqs[c]) = 1 /\ reqs[c][1].ctx = "ctx2" /\ args[c].ctx = "ctx2"

\* What a call yields running alone: its statements one after the other on
\* its own arguments and its own reply.
ZeroEnvelopeOf(o) ==
    IF o = "ArgoTunnels" THEN ZeroArgoTunnelsDetailResponse
    ELSE ZeroArgoTunnelDetailResponse
AloneDecoded(c) == Unmarshal(KindOf(op[c]), res[c], ZeroEnvelopeOf(op[c]))
AloneResult(c) ==
    IF err[c] # NilErr
    THEN <<ZeroResultOf(op[c]), [msg |-> errMakeRequestError, cause |-> err[c]]>>
    ELSE IF AloneDecoded(c).err # NilErr
         THEN <<ZeroResultOf(op[c]),
                [msg |-> errUnmarshalError, cause |-> AloneDecoded(c).err]>>
         ELSE <<IF ReturnsNothing(op[c]) THEN [none |-> TRUE]
                ELSE AloneDecoded(c).val.Result,
                NoError>>

(***************************************************************************)
(* C10: calls in flight at once on one client do not affect each other:    *)
(* under every interleaving a call's decoded response, returned value and  *)
(* returned error are those the call yields running alone on its own       *)
(* arguments and its own reply.                                            *)
(***************************************************************************)
C10_CallsIndependent ==
    \A c \in Calls :
        /\ pc[c] = "decoded" =>
              /\ frames[c] = AloneDecoded(c).val
              /\ decErr[c] = AloneDecoded(c).err
        /\ Done(c) => <<ret[c], retErr[c]>> = AloneResult(c)

\* one call has returned its tunnel while another, answered differently,
\* holds its own decoded response
C10_Witness ==
    \E c, d \in Calls :
        /\ c # d
        /\ Done(c) /\ op[c] = "ArgoTunnel" /\ retErr[c] = NoError /\ ret[c].ID = "t1"
        /\ pc[d] = "decoded" /\ op[d] = "ArgoTunnel" /\ frames[d].Result.ID = "t2"
        /\ res[c] # res[d]

====
